---- MODULE Spec2Model ----
(***************************************************************************)
(* The in-process TTL cache of kuiper-admin (internal/cache/cache.go):     *)
(* a map from string keys to CacheItem{Value, Expiration} guarded by a     *)
(* sync.RWMutex, with one cleanup goroutine per cache.                     *)
(*                                                                         *)
(* Foreground goroutines call Set, Get, Delete and Clear.  Each call is    *)
(* split at the points where another goroutine can interleave: taking the  *)
(* mutex, the body executed under it, and the deferred release.  Get runs  *)
(* under the READ lock, so several Gets can be inside the map at once; its *)
(* delete of an expired item is therefore split into a begin and an end    *)
(* step, and a map operation that overlaps such a write is a data race     *)
(* whose outcome is chosen nondeterministically among what the Go runtime  *)
(* can produce (fatal "concurrent map ..." error, or the old, the new or a *)
(* half-cleared slot being read).                                          *)
(***************************************************************************)
EXTENDS Integers, FiniteSets, Sequences, TLC

\* ---------------------------------------------------------------- bounds
NumThreads == 2
NumKeys == 2
NumValues == 2
MaxTime == 2
MaxTTL == 1

Threads == 1..NumThreads
Sweeper == 0
Procs == Threads \cup {Sweeper}
Keys == 1..NumKeys
Values == 1..NumValues
\* ttl is a time.Duration: negative, zero and positive durations are accepted
TTLs == (0 - 1)..MaxTTL
Times == 0..MaxTime

\* no goroutine holds the writer side of the mutex
NoProc == 0 - 1
\* the nil interface{} returned on a miss
Nil == 0
\* the zero time.Time (year 1), earlier than every Expiration Set can compute
ZeroTime == 0 - 2

VARIABLES
    items,      \* Cache.items: map[string]CacheItem
    writer,     \* RWMutex: the goroutine inside Lock()..Unlock(), or NoProc
    readers,    \* RWMutex: the goroutines between RLock() and RUnlock()
    now,        \* the wall clock read by time.Now()
    pc,         \* position of every goroutine
    arg,        \* arguments of the call a thread is executing
    exists,     \* Get: the ok flag of `item, exists := c.items[key]`
    tnow,       \* Get: the clock reading of the call
    ret,        \* Get: the returned (value, found)
    snow,       \* cleanup: `now := time.Now()`
    before,     \* history: the table as the running sweep or Clear found it
    old,        \* history: the item a Set is replacing or a Delete is removing
    lastSet,    \* history: the last Set on each key since its last Delete/Clear
    crashed,    \* the runtime ended the process with a fatal error
    dead,       \* history: keys a Get reported expired since their last Set
    store,      \* the products table, oldest row first
    cpc,        \* position of every caller of the data-access layer
    call,       \* parameters and locals of a caller's GetProductsPaginated
    budget,     \* calls and store mutations made so far
    kq,         \* two queries and the cache keys generated for them
    req         \* an HTTP request at the Auth middleware and its outcome

\* the variables of the data-access layer, the key generator and the middleware
extVars == <<store, cpc, call, budget, kq, req>>

vars == <<items, writer, readers, now, pc, arg, exists, tnow, ret,
          snow, before, old, lastSet, crashed, dead, store, cpc, call, budget, kq, req>>

\* ------------------------------------------------------------ data model
CacheItem(v, e) == [value |-> v, exp |-> e]

NoArg == [key |-> 0, value |-> Nil, ttl |-> 0]
NoItem == CacheItem(Nil, ZeroTime)
NoRet == [value |-> Nil, found |-> FALSE]
\* no Set on the key since its last Delete/Clear
NoSet == [value |-> Nil, at |-> 0, ttl |-> 0]
EmptyMap == [k \in {} |-> NoItem]

\* a Set that subtracts the duration instead of adding it
NewItemSignSlip(v, t, ttl) == CacheItem(v, t - ttl)

\* a Set that replaces a ttl <= 0 by a default ttl instead of storing it
NewItemDefaultTTL(v, t, ttl) == CacheItem(v, t + (IF ttl <= 0 THEN 1 ELSE ttl))

\* a Set that refuses a negative duration and stores a ttl of zero instead
NewItemClampTTL(v, t, ttl) == CacheItem(v, t + (IF ttl < 0 THEN 0 ELSE ttl))

\* Set, lines 37-40: CacheItem{Value: value, Expiration: time.Now().Add(ttl)}
NewItem(v, t, ttl) == CacheItem(v, t + ttl)

\* a Set that extends the deadline of an existing entry instead of replacing it
StoreExtend(m, k, it) ==
    [x \in DOMAIN m \cup {k} |->
        IF x # k THEN m[x]
        ELSE IF k \in DOMAIN m /\ m[k].exp > it.exp
             THEN CacheItem(it.value, m[k].exp) ELSE it]

\* a Set that only inserts and leaves an existing entry alone
StoreIfAbsent(m, k, it) ==
    [x \in DOMAIN m \cup {k} |-> IF x \in DOMAIN m THEN m[x] ELSE it]

\* a Set that keeps an existing entry whose deadline is not earlier
StoreKeepLater(m, k, it) ==
    [x \in DOMAIN m \cup {k} |->
        IF x # k THEN m[x]
        ELSE IF k \in DOMAIN m /\ m[k].exp >= it.exp THEN m[k] ELSE it]

\* c.items[key] = it
Store(m, k, it) == [x \in DOMAIN m \cup {k} |-> IF x = k THEN it ELSE m[x]]

\* a delete whose key test is inverted: it keeps the key and drops the rest
RemoveInverted(m, k) == [x \in DOMAIN m \cap {k} |-> m[x]]

\* a removal that renews the entry by one clock unit (sliding expiration)
RemoveRenew(m, k) ==
    [x \in DOMAIN m |-> IF x = k THEN [m[x] EXCEPT !.exp = @ + 1] ELSE m[x]]

\* a delete that resets the whole map, as Clear does
RemoveAll(m, k) == EmptyMap

\* delete(c.items, key): no-op when the key is absent
Remove(m, k) == [x \in DOMAIN m \ {k} |-> m[x]]

\* a Get without the expiry test
GetExpiredNever(t, it) == FALSE

\* a Get that already expires the item at its deadline (!Before instead of After)
GetExpiredAtDeadline(t, it) == t >= it.exp

\* a Get with receiver and argument of After swapped
GetExpiredSwapped(t, it) == it.exp > t

\* Get, line 53: time.Now().After(item.Expiration)
GetExpired(t, it) == t > it.exp

\* a sweep with receiver and argument of After swapped
SweepExpiredSwapped(t, it) == it.exp > t

\* cleanup, line 87: now.After(item.Expiration)
SweepExpired(t, it) == t > it.exp

\* cleanup, lines 86-90: the range loop deleting every expired item
SweepTable(m, t) == [x \in {k \in DOMAIN m : ~SweepExpired(t, m[k])} |-> m[x]]

\* ------------------------------------------------------------------
\* The data-access layer for product listings (internal/models/product.go)
\* over the store and the cache held by database.DB.

NumCallers == 2
MaxCalls == 2
MaxMutations == 1
MaxPage == 2
LargeStore == 101
DalMaxTime == 6
KeyStrLen == 2

\* Program constants of GetProductsPaginated and GetAllProducts;
\* the clock of this layer counts minutes.
DefaultPageSize == 20
MaxPageSize == 100
AllPageSize == 1000
CacheTTL == 5

Callers == 1..NumCallers

\* Strings are sequences of tokens; a token stands for a fixed piece of text.
Empty == <<>>
CatA == <<"a">>
CatB == <<"b">>
SearchSep == ":search="

RECURSIVE Digits(_)
\* fmt's %d of a non-negative integer
Digits(n) ==
    LET d == <<"0", "1", "2", "3", "4", "5", "6", "7", "8", "9">>
    IN  IF n < 10 THEN <<d[n + 1]>> ELSE Digits(n \div 10) \o <<d[(n % 10) + 1]>>

\* the string that generateCacheKey hashes
PreHash(page, pageSize, categoryID, search) ==
    <<"products:page=">> \o Digits(page) \o <<":size=">> \o Digits(pageSize)
        \o <<":cat=">> \o categoryID \o <<SearchSep>> \o search

\* md5.Sum printed with %x: a digest that is a function of the input only
MD5(s) == [md5 |-> s]

generateCacheKey(page, pageSize, categoryID, search) ==
    [prefix |-> "products:", sum |-> MD5(PreHash(page, pageSize, categoryID, search))]

NoKey == [prefix |-> "", sum |-> MD5(Empty)]

NormPage(page) == IF page < 1 THEN 1 ELSE page

\* a normalisation that forgets the upper limit
NormSizeUncapped(pageSize) == IF pageSize < 1 THEN DefaultPageSize ELSE pageSize

NormSize(pageSize) ==
    LET s == IF pageSize < 1 THEN DefaultPageSize ELSE pageSize
    IN  IF s > MaxPageSize THEN MaxPageSize ELSE s

Product(i, c, n) == [id |-> i, cat |-> c, name |-> n, rev |-> 0]

\* a store of n products, created in the order of their ids
MakeStore(n) ==
    [i \in 1..n |-> Product(i, IF i % 2 = 1 THEN CatA ELSE CatB,
                               IF i % 3 = 0 THEN CatA ELSE CatB)]

\* name ILIKE '%search%'
Contains(s, sub) ==
    \E i \in 0..(Len(s) - Len(sub)) : SubSeq(s, i + 1, i + Len(sub)) = sub

\* the WHERE clause built from the filters
Matches(p, categoryID, search) ==
    /\ categoryID # Empty => p.cat = categoryID
    /\ search # Empty => Contains(p.name, search)

Matching(st, categoryID, search) ==
    LET Test(p) == Matches(p, categoryID, search)
    IN  SelectSeq(st, Test)

\* SELECT COUNT(*)
CountQuery(st, categoryID, search) == Len(Matching(st, categoryID, search))

\* SELECT ... ORDER BY created_at DESC LIMIT pageSize OFFSET (page - 1) * pageSize
PageQuery(st, page, pageSize, categoryID, search) ==
    LET m == Matching(st, categoryID, search)
        offset == (page - 1) * pageSize
        n == IF Len(m) - offset > pageSize THEN pageSize
             ELSE IF Len(m) - offset > 0 THEN Len(m) - offset ELSE 0
    IN  [i \in 1..n |-> m[Len(m) - offset - i + 1]]

\* a page count that rounds down
TotalPagesFloor(totalCount, pageSize) == totalCount \div pageSize

TotalPages(totalCount, pageSize) == (totalCount + pageSize - 1) \div pageSize

PaginatedResult(data, totalCount, page, pageSize) ==
    [data |-> data, totalCount |-> totalCount, page |-> page, pageSize |-> pageSize,
     totalPages |-> TotalPages(totalCount, pageSize),
     hasNext |-> page < TotalPages(totalCount, pageSize),
     hasPrev |-> page > 1]

NoResult ==
    [data |-> Empty, totalCount |-> 0, page |-> 0, pageSize |-> 0,
     totalPages |-> 0, hasNext |-> FALSE, hasPrev |-> FALSE]

\* a layer that never finds anything in the cache
CacheHitNever(m, k, t) == FALSE

\* what Cache.Get(key) returns at time t, and the table it leaves
CacheHit(m, k, t) == k \in DOMAIN m /\ ~GetExpired(t, m[k])

AfterGet(m, k, t) ==
    IF k \in DOMAIN m /\ GetExpired(t, m[k]) THEN Remove(m, k) ELSE m

NoCall ==
    [inPage |-> 0, inSize |-> 0, page |-> 0, pageSize |-> 0,
     cat |-> Empty, search |-> Empty, all |-> FALSE, key |-> NoKey,
     hit |-> FALSE, totalCount |-> 0, products |-> Empty, result |-> NoResult,
     err |-> "", queries |-> 0]

DalPages == {0, MaxPage}
DalSizes == {0, MaxPageSize + 1}
DalCats == {Empty, CatA}
\* the handler is the only caller and passes no search text (handlers.go:311)
DalSearches == {Empty}
InitStores == {MakeStore(0), MakeStore(LargeStore)}

\* the strings the key generator is tried on
KeyTokens == {"a", SearchSep}
KeyStrings == UNION {[1..n -> KeyTokens] : n \in 0..KeyStrLen}
KeyQueries ==
    [page : 1..MaxPage, pageSize : {DefaultPageSize}, cat : KeyStrings, search : KeyStrings]

NoKq ==
    [a |-> [page |-> 0, pageSize |-> 0, cat |-> Empty, search |-> Empty],
     b |-> [page |-> 0, pageSize |-> 0, cat |-> Empty, search |-> Empty],
     pa |-> Empty, pb |-> Empty, ka |-> NoKey, kb |-> NoKey, done |-> FALSE]

\* the data-access layer and the key generator at rest
DalIdle ==
    /\ store = Empty
    /\ cpc = [c \in Callers |-> "idle"]
    /\ call = [c \in Callers |-> NoCall]
    /\ budget = [calls |-> 0, muts |-> 0, nextId |-> 1]

KeyIdle == kq = NoKq

\* no request at the Auth middleware
NoReq ==
    [path |-> Empty, session |-> "absent", phase |-> "none", nextCalls |-> 0,
     status |-> 0, location |-> Empty]

AuthIdle == req = NoReq

CacheInit ==
    /\ items = EmptyMap
    /\ writer = NoProc
    /\ readers = {}
    /\ now = 0
    /\ pc = [p \in Procs |-> "idle"]
    /\ arg = [p \in Threads |-> NoArg]
    /\ exists = [p \in Threads |-> FALSE]
    /\ tnow = [p \in Threads |-> 0]
    /\ ret = [p \in Threads |-> NoRet]
    /\ snow = 0
    /\ before = EmptyMap
    /\ old = [p \in Threads |-> NoItem]
    /\ lastSet = [k \in Keys |-> NoSet]
    /\ crashed = FALSE
    /\ dead = {}

Init == CacheInit /\ DalIdle /\ KeyIdle /\ AuthIdle

\* --------------------------------------------------------------- RWMutex
\* Lock() first takes the writer mutex and announces the writer (new
\* readers then block), and returns once the active readers have left.
LockBegin(p) == writer = NoProc /\ writer' = p
\* a Lock() that returns without waiting for the active readers to leave
LockedIgnoringReaders(p) == writer = p
Locked(p) == writer = p /\ readers = {}
\* an RLock() that does not wait for the writer
CanRLockAlways == TRUE
\* RLock() blocks while a writer is pending or active.
CanRLock == writer = NoProc

GetLocals == <<exists, tnow, ret>>
SweepLocals == <<snow, before>>

\* -------------------------------------------------------------------- Set
\* A caller blocked on the mutex has not used its arguments yet: they are
\* recorded by the first step of the body, which is where they take effect.
SetCall(p) ==
    /\ ~crashed /\ pc[p] = "idle"
    /\ pc' = [pc EXCEPT ![p] = "set_lock"]
    /\ UNCHANGED <<items, writer, readers, now, arg, GetLocals, SweepLocals, old,
                   lastSet, crashed, extVars, dead>>

SetLock(p) ==
    /\ ~crashed /\ pc[p] = "set_lock"
    /\ LockBegin(p)
    /\ pc' = [pc EXCEPT ![p] = "set_store"]
    /\ UNCHANGED <<items, readers, now, arg, GetLocals, SweepLocals, old,
                   lastSet, crashed, extVars, dead>>

\* Lines 37-40, executed under the write lock.
SetStore(p, k, v, t) ==
    /\ ~crashed /\ pc[p] = "set_store"
    /\ Locked(p)
    /\ arg' = [arg EXCEPT ![p] = [key |-> k, value |-> v, ttl |-> t]]
    /\ items' = Store(items, k, NewItem(v, now, t))
    /\ old' = [old EXCEPT ![p] = IF k \in DOMAIN items THEN items[k] ELSE NoItem]
    /\ lastSet' = [lastSet EXCEPT ![k] = [value |-> v, at |-> now, ttl |-> t]]
    /\ dead' = dead \ {k}
    /\ pc' = [pc EXCEPT ![p] = "set_unlock"]
    /\ UNCHANGED <<writer, readers, now, GetLocals, SweepLocals, crashed, extVars>>

SetUnlock(p) ==
    /\ ~crashed /\ pc[p] = "set_unlock"
    /\ writer' = NoProc
    /\ pc' = [pc EXCEPT ![p] = "idle"]
    /\ arg' = [arg EXCEPT ![p] = NoArg]
    /\ old' = [old EXCEPT ![p] = NoItem]
    /\ UNCHANGED <<items, readers, now, GetLocals, SweepLocals, lastSet, crashed, extVars, dead>>

\* -------------------------------------------------------------------- Get
GetCall(p) ==
    /\ ~crashed /\ pc[p] = "idle"
    /\ pc' = [pc EXCEPT ![p] = "get_rlock"]
    /\ UNCHANGED <<items, writer, readers, now, arg, GetLocals, SweepLocals, old,
                   lastSet, crashed, extVars, dead>>

GetRLock(p) ==
    /\ ~crashed /\ pc[p] = "get_rlock"
    /\ CanRLock
    /\ readers' = readers \cup {p}
    /\ pc' = [pc EXCEPT ![p] = "get_lookup"]
    /\ UNCHANGED <<items, writer, now, arg, GetLocals, SweepLocals, old,
                   lastSet, crashed, extVars, dead>>

\* The goroutines that are inside a map write while only holding the read lock.
MapWriters == {q \in Threads : pc[q] = "get_deleting"}

\* What a lookup of k can read.  Without a racing write it is the table;
\* while another goroutine is deleting k the slot may be read as it was,
\* as already gone, or half cleared.
Views(p, k) ==
    LET cur == IF k \in DOMAIN items
               THEN {[exists |-> TRUE, item |-> items[k]]}
               ELSE {[exists |-> FALSE, item |-> NoItem]}
        racing == \E q \in MapWriters \ {p} : arg[q].key = k
    IN  IF racing /\ k \in DOMAIN items
        THEN cur \cup {[exists |-> FALSE, item |-> NoItem],
                       [exists |-> TRUE, item |-> CacheItem(Nil, items[k].exp)],
                       [exists |-> TRUE, item |-> CacheItem(items[k].value, ZeroTime)]}
        ELSE cur

\* Lines 48-59 up to the delete: the lookup, the clock reading and the test.
GetLookup(p, k) ==
    /\ ~crashed /\ pc[p] = "get_lookup"
    /\ arg' = [arg EXCEPT ![p] = [key |-> k, value |-> Nil, ttl |-> 0]]
    /\ \E v \in Views(p, k) :
          /\ exists' = [exists EXCEPT ![p] = v.exists]
          /\ tnow' = [tnow EXCEPT ![p] = now]
          /\ IF ~v.exists
             THEN /\ ret' = [ret EXCEPT ![p] = [value |-> Nil, found |-> FALSE]]
                  /\ pc' = [pc EXCEPT ![p] = "get_runlock"]
             ELSE IF GetExpired(now, v.item)
             THEN /\ ret' = ret
                  /\ pc' = [pc EXCEPT ![p] = "get_delete"]
             ELSE /\ ret' = [ret EXCEPT ![p] = [value |-> v.item.value, found |-> TRUE]]
                  /\ pc' = [pc EXCEPT ![p] = "get_runlock"]
    /\ UNCHANGED <<items, writer, readers, now, SweepLocals, old,
                   lastSet, crashed, extVars, dead>>

\* Line 55, delete(c.items, key), entered with only the read lock held.
GetDeleteBegin(p) ==
    /\ ~crashed /\ pc[p] = "get_delete"
    /\ pc' = [pc EXCEPT ![p] = "get_deleting"]
    /\ UNCHANGED <<items, writer, readers, now, arg, GetLocals, SweepLocals,
                   old, lastSet, crashed, extVars, dead>>

GetDeleteEnd(p) ==
    /\ ~crashed /\ pc[p] = "get_deleting"
    /\ items' = Remove(items, arg[p].key)
    /\ ret' = [ret EXCEPT ![p] = [value |-> Nil, found |-> FALSE]]
    /\ dead' = dead \cup {arg[p].key}
    /\ pc' = [pc EXCEPT ![p] = "get_runlock"]
    /\ UNCHANGED <<writer, readers, now, arg, exists, tnow, SweepLocals,
                   old, lastSet, crashed, extVars>>

GetRUnlock(p) ==
    /\ ~crashed /\ pc[p] = "get_runlock"
    /\ readers' = readers \ {p}
    /\ pc' = [pc EXCEPT ![p] = "idle"]
    /\ arg' = [arg EXCEPT ![p] = NoArg]
    /\ exists' = [exists EXCEPT ![p] = FALSE]
    /\ tnow' = [tnow EXCEPT ![p] = 0]
    /\ ret' = [ret EXCEPT ![p] = NoRet]
    /\ UNCHANGED <<items, writer, now, SweepLocals, old, lastSet, crashed, extVars, dead>>

\* The runtime's concurrent-map check: a map read or write that overlaps
\* another goroutine's map write can end the process with
\* "fatal error: concurrent map read and map write" / "concurrent map writes".
MapRace(p) ==
    /\ ~crashed
    /\ pc[p] \in {"get_lookup", "get_delete", "get_deleting"}
    /\ MapWriters \ {p} # {}
    /\ crashed' = TRUE
    /\ UNCHANGED <<items, writer, readers, now, pc, arg, GetLocals, SweepLocals,
                   old, lastSet, extVars, dead>>

\* ----------------------------------------------------------------- Delete
DeleteCall(p) ==
    /\ ~crashed /\ pc[p] = "idle"
    /\ pc' = [pc EXCEPT ![p] = "delete_lock"]
    /\ UNCHANGED <<items, writer, readers, now, arg, GetLocals, SweepLocals, old,
                   lastSet, crashed, extVars, dead>>

DeleteLock(p) ==
    /\ ~crashed /\ pc[p] = "delete_lock"
    /\ LockBegin(p)
    /\ pc' = [pc EXCEPT ![p] = "delete_remove"]
    /\ UNCHANGED <<items, readers, now, arg, GetLocals, SweepLocals, old,
                   lastSet, crashed, extVars, dead>>

\* Line 66, executed under the write lock.
DeleteRemove(p, k) ==
    /\ ~crashed /\ pc[p] = "delete_remove"
    /\ Locked(p)
    /\ arg' = [arg EXCEPT ![p] = [key |-> k, value |-> Nil, ttl |-> 0]]
    /\ items' = Remove(items, k)
    /\ old' = [old EXCEPT ![p] = IF k \in DOMAIN items THEN items[k] ELSE NoItem]
    /\ lastSet' = [lastSet EXCEPT ![k] = NoSet]
    /\ pc' = [pc EXCEPT ![p] = "delete_unlock"]
    /\ UNCHANGED <<writer, readers, now, GetLocals, SweepLocals, crashed, extVars, dead>>

DeleteUnlock(p) ==
    /\ ~crashed /\ pc[p] = "delete_unlock"
    /\ writer' = NoProc
    /\ pc' = [pc EXCEPT ![p] = "idle"]
    /\ arg' = [arg EXCEPT ![p] = NoArg]
    /\ old' = [old EXCEPT ![p] = NoItem]
    /\ UNCHANGED <<items, readers, now, GetLocals, SweepLocals, lastSet,
                   crashed, extVars, dead>>

\* ------------------------------------------------------------------ Clear
ClearCall(p) ==
    /\ ~crashed /\ pc[p] = "idle"
    /\ pc' = [pc EXCEPT ![p] = "clear_lock"]
    /\ UNCHANGED <<items, writer, readers, now, arg, GetLocals, SweepLocals,
                   old, lastSet, crashed, extVars, dead>>

ClearLock(p) ==
    /\ ~crashed /\ pc[p] = "clear_lock"
    /\ LockBegin(p)
    /\ pc' = [pc EXCEPT ![p] = "clear_reset"]
    /\ UNCHANGED <<items, readers, now, arg, GetLocals, SweepLocals, old,
                   lastSet, crashed, extVars, dead>>

\* a Clear that assigns the fresh map to a shadowing local (items := make(...))
ClearResetShadowed(p) ==
    /\ ~crashed /\ pc[p] = "clear_reset"
    /\ Locked(p)
    /\ items' = items
    /\ before' = items
    /\ lastSet' = [k \in Keys |-> NoSet]
    /\ pc' = [pc EXCEPT ![p] = "clear_unlock"]
    /\ UNCHANGED <<writer, readers, now, arg, GetLocals, snow, old, crashed, extVars, dead>>

\* a Clear that rebuilds the cache with New() and so starts another cleanup
ClearResetRespawn(p) ==
    /\ ~crashed /\ pc[p] = "clear_reset"
    /\ Locked(p)
    /\ items' = EmptyMap
    /\ before' = items
    /\ lastSet' = [k \in Keys |-> NoSet]
    /\ pc' = [q \in DOMAIN pc \cup {NumThreads + 1} |->
                IF q = p THEN "clear_unlock"
                ELSE IF q \in DOMAIN pc THEN pc[q] ELSE "idle"]
    /\ UNCHANGED <<writer, readers, now, arg, GetLocals, snow, old, crashed, extVars, dead>>

\* Line 73, executed under the write lock.
ClearReset(p) ==
    /\ ~crashed /\ pc[p] = "clear_reset"
    /\ Locked(p)
    /\ items' = EmptyMap
    /\ before' = items
    /\ lastSet' = [k \in Keys |-> NoSet]
    /\ pc' = [pc EXCEPT ![p] = "clear_unlock"]
    /\ UNCHANGED <<writer, readers, now, arg, GetLocals, snow, old, crashed, extVars, dead>>

ClearUnlock(p) ==
    /\ ~crashed /\ pc[p] = "clear_unlock"
    /\ writer' = NoProc
    /\ before' = EmptyMap
    /\ pc' = [pc EXCEPT ![p] = "idle"]
    /\ UNCHANGED <<items, readers, now, arg, GetLocals, snow, old,
                   lastSet, crashed, extVars, dead>>

\* ---------------------------------------------------------------- cleanup
\* `case <-ticker.C: c.mutex.Lock()`: the ticker fired and the sweep queues
\* for the write lock.  The ticker period is not counted in clock units.
SweepLock ==
    /\ ~crashed /\ pc[Sweeper] = "idle"
    /\ LockBegin(Sweeper)
    /\ pc' = [pc EXCEPT ![Sweeper] = "sweep_scan"]
    /\ UNCHANGED <<items, readers, now, arg, GetLocals, SweepLocals, old,
                   lastSet, crashed, extVars, dead>>

\* Lines 85-90, executed under the write lock.
SweepScan ==
    /\ ~crashed /\ pc[Sweeper] = "sweep_scan"
    /\ Locked(Sweeper)
    /\ snow' = now
    /\ before' = items
    /\ items' = SweepTable(items, now)
    /\ pc' = [pc EXCEPT ![Sweeper] = "sweep_unlock"]
    /\ UNCHANGED <<writer, readers, now, arg, GetLocals, old, lastSet, crashed, extVars, dead>>

SweepUnlock ==
    /\ ~crashed /\ pc[Sweeper] = "sweep_unlock"
    /\ writer' = NoProc
    /\ snow' = 0
    /\ before' = EmptyMap
    /\ pc' = [pc EXCEPT ![Sweeper] = "idle"]
    /\ UNCHANGED <<items, readers, now, arg, GetLocals, old, lastSet, crashed, extVars, dead>>

\* ------------------------------------------------------------------ clock
Tick ==
    /\ ~crashed /\ now < MaxTime
    /\ now' = now + 1
    /\ UNCHANGED <<items, writer, readers, pc, arg, GetLocals, SweepLocals,
                   old, lastSet, crashed, extVars, dead>>

Next ==
    \/ \E p \in Threads : SetCall(p)
    \/ \E p \in Threads : SetLock(p)
    \/ \E p \in Threads, k \in Keys, v \in Values, t \in TTLs : SetStore(p, k, v, t)
    \/ \E p \in Threads : SetUnlock(p)
    \/ \E p \in Threads : GetCall(p)
    \/ \E p \in Threads : GetRLock(p)
    \/ \E p \in Threads, k \in Keys : GetLookup(p, k)
    \/ \E p \in Threads : GetDeleteBegin(p)
    \/ \E p \in Threads : GetDeleteEnd(p)
    \/ \E p \in Threads : GetRUnlock(p)
    \/ \E p \in Threads : MapRace(p)
    \/ \E p \in Threads : DeleteCall(p)
    \/ \E p \in Threads : DeleteLock(p)
    \/ \E p \in Threads, k \in Keys : DeleteRemove(p, k)
    \/ \E p \in Threads : DeleteUnlock(p)
    \/ \E p \in Threads : ClearCall(p)
    \/ \E p \in Threads : ClearLock(p)
    \/ \E p \in Threads : ClearReset(p)
    \/ \E p \in Threads : ClearUnlock(p)
    \/ SweepLock
    \/ SweepScan
    \/ SweepUnlock
    \/ Tick

Spec == Init /\ [][Next]_vars

\* ------------------------------------------------------------------
\* The cache under the scheduling the Go runtime provides, over fewer keys.
\* Goroutines that are runnable keep running (weak fairness on every step
\* inside a call).  sync.Mutex hands the lock to a goroutine that has waited
\* for it (starvation mode) and RWMutex.Unlock wakes the readers that queued
\* behind the writer, so a goroutine waiting for the mutex gets it if it
\* becomes free again and again (strong fairness on the acquisitions).  The
\* ticker of cleanup keeps firing.  Nothing obliges a caller to start a
\* call, the clock to advance, or a race to be detected.

NumLiveKeys == 1
LiveKeys == 1..NumLiveKeys
LiveValues == {1}

NextLive ==
    \/ \E p \in Threads : SetCall(p)
    \/ \E p \in Threads : SetLock(p)
    \/ \E p \in Threads, k \in LiveKeys, v \in LiveValues, t \in TTLs : SetStore(p, k, v, t)
    \/ \E p \in Threads : SetUnlock(p)
    \/ \E p \in Threads : GetCall(p)
    \/ \E p \in Threads : GetRLock(p)
    \/ \E p \in Threads, k \in LiveKeys : GetLookup(p, k)
    \/ \E p \in Threads : GetDeleteBegin(p)
    \/ \E p \in Threads : GetDeleteEnd(p)
    \/ \E p \in Threads : GetRUnlock(p)
    \/ \E p \in Threads : MapRace(p)
    \/ \E p \in Threads : DeleteCall(p)
    \/ \E p \in Threads : DeleteLock(p)
    \/ \E p \in Threads, k \in LiveKeys : DeleteRemove(p, k)
    \/ \E p \in Threads : DeleteUnlock(p)
    \/ \E p \in Threads : ClearCall(p)
    \/ \E p \in Threads : ClearLock(p)
    \/ \E p \in Threads : ClearReset(p)
    \/ \E p \in Threads : ClearUnlock(p)
    \/ SweepLock
    \/ SweepScan
    \/ SweepUnlock
    \/ Tick

ThreadFairness(p) ==
    /\ SF_vars(SetLock(p))
    /\ WF_vars(\E k \in LiveKeys, v \in LiveValues, t \in TTLs : SetStore(p, k, v, t))
    /\ WF_vars(SetUnlock(p))
    /\ SF_vars(GetRLock(p))
    /\ WF_vars(\E k \in LiveKeys : GetLookup(p, k))
    /\ WF_vars(GetDeleteBegin(p))
    /\ WF_vars(GetDeleteEnd(p))
    /\ WF_vars(GetRUnlock(p))
    /\ SF_vars(DeleteLock(p))
    /\ WF_vars(\E k \in LiveKeys : DeleteRemove(p, k))
    /\ WF_vars(DeleteUnlock(p))
    /\ SF_vars(ClearLock(p))
    /\ WF_vars(ClearReset(p))
    /\ WF_vars(ClearUnlock(p))

SweepFairness ==
    /\ SF_vars(SweepLock)
    /\ WF_vars(SweepScan)
    /\ WF_vars(SweepUnlock)

SpecLive ==
    /\ Init /\ [][NextLive]_vars
    /\ \A p \in Threads : ThreadFairness(p)
    /\ SweepFairness

\* ------------------------------------------------------------------
\* GetProductsPaginated and the mutations of the products table.
\* The cache is used through Get and Set, each taken as one step.

cacheLocals == <<writer, readers, pc, arg, exists, tnow, ret, snow, before,
                 old, lastSet, crashed, dead>>

InitDAL ==
    /\ CacheInit /\ KeyIdle /\ AuthIdle
    /\ store \in InitStores
    /\ cpc = [c \in Callers |-> "idle"]
    /\ call = [c \in Callers |-> NoCall]
    /\ budget = [calls |-> 0, muts |-> 0, nextId |-> Len(store) + 1]

\* lines 79-95: normalise, build the key, consult the cache.  Callers are
\* interchangeable: a caller starts only while those before it are busy.
PagStart(c, page, pageSize, categoryID, search, all) ==
    LET p == NormPage(page)
        s == NormSize(pageSize)
        key == generateCacheKey(p, s, categoryID, search)
        base == [NoCall EXCEPT !.inPage = page, !.inSize = pageSize,
                               !.page = p, !.pageSize = s, !.cat = categoryID,
                               !.search = search, !.all = all, !.key = key]
    IN  /\ cpc[c] = "idle" /\ budget.calls < MaxCalls
        /\ \A d \in Callers : d < c => cpc[d] # "idle"
        /\ budget' = [budget EXCEPT !.calls = @ + 1]
        /\ items' = AfterGet(items, key, now)
        /\ IF CacheHit(items, key, now)
           THEN /\ call' = [call EXCEPT ![c] =
                               [base EXCEPT !.hit = TRUE, !.result = items[key].value]]
                /\ cpc' = [cpc EXCEPT ![c] = "done"]
           ELSE /\ call' = [call EXCEPT ![c] = base]
                /\ cpc' = [cpc EXCEPT ![c] = "count"]
        /\ UNCHANGED <<store, now, kq, req, cacheLocals>>

GetProductsPaginated(c, page, pageSize, categoryID, search) ==
    PagStart(c, page, pageSize, categoryID, search, FALSE)

GetAllProducts(c) == PagStart(c, 1, AllPageSize, Empty, Empty, TRUE)

\* lines 132-136: the count query
PagCount(c) ==
    /\ cpc[c] = "count"
    /\ call' = [call EXCEPT ![c].totalCount = CountQuery(store, call[c].cat, call[c].search),
                            ![c].queries = @ + 1]
    /\ cpc' = [cpc EXCEPT ![c] = "page"]
    /\ UNCHANGED <<items, store, now, budget, kq, req, cacheLocals>>

PagCountFail(c) ==
    /\ cpc[c] = "count"
    /\ call' = [call EXCEPT ![c].err = "count", ![c].queries = @ + 1]
    /\ cpc' = [cpc EXCEPT ![c] = "done"]
    /\ UNCHANGED <<items, store, now, budget, kq, req, cacheLocals>>

\* lines 139-200: the page query and the scan of its rows
PagQuery(c) ==
    /\ cpc[c] = "page"
    /\ call' = [call EXCEPT ![c].products = PageQuery(store, call[c].page, call[c].pageSize,
                                                      call[c].cat, call[c].search),
                            ![c].queries = @ + 1]
    /\ cpc' = [cpc EXCEPT ![c] = "finish"]
    /\ UNCHANGED <<items, store, now, budget, kq, req, cacheLocals>>

\* the ways the page query fails: db.Pool.Query (line 150), rows.Scan
\* (line 162) or rows.Err (line 198)
QueryErrors == {"query", "scan", "rows"}

\* the rows appended to products before the failure
PartialRows(rows, kind) ==
    IF kind = "query" \/ rows = Empty THEN Empty ELSE SubSeq(rows, 1, Len(rows) - 1)

\* a failure path that still caches what was read so far
PagQueryFailCaching(c, kind) ==
    /\ cpc[c] = "page"
    /\ call' = [call EXCEPT ![c].err = kind, ![c].queries = @ + 1,
                            ![c].products = PartialRows(
                                PageQuery(store, call[c].page, call[c].pageSize,
                                          call[c].cat, call[c].search), kind)]
    /\ items' = Store(items, call[c].key,
                       NewItem(PaginatedResult(call'[c].products, call[c].totalCount,
                                               call[c].page, call[c].pageSize),
                               now, CacheTTL))
    /\ cpc' = [cpc EXCEPT ![c] = "done"]
    /\ UNCHANGED <<store, now, budget, kq, req, cacheLocals>>

PagQueryFail(c, kind) ==
    /\ cpc[c] = "page"
    /\ call' = [call EXCEPT ![c].err = kind, ![c].queries = @ + 1,
                            ![c].products = PartialRows(
                                PageQuery(store, call[c].page, call[c].pageSize,
                                          call[c].cat, call[c].search), kind)]
    /\ cpc' = [cpc EXCEPT ![c] = "done"]
    /\ UNCHANGED <<items, store, now, budget, kq, req, cacheLocals>>

\* lines 203-220: metadata, the result, Cache.Set for five minutes
PagFinish(c) ==
    LET result == PaginatedResult(call[c].products, call[c].totalCount,
                                  call[c].page, call[c].pageSize)
    IN  /\ cpc[c] = "finish"
        /\ call' = [call EXCEPT ![c].result = result]
        /\ items' = Store(items, call[c].key, NewItem(result, now, CacheTTL))
        /\ cpc' = [cpc EXCEPT ![c] = "done"]
        /\ UNCHANGED <<store, now, budget, kq, req, cacheLocals>>

\* the caller has the result (or the error) and goes on
PagReturn(c) ==
    /\ cpc[c] = "done"
    /\ call' = [call EXCEPT ![c] = NoCall]
    /\ cpc' = [cpc EXCEPT ![c] = "idle"]
    /\ UNCHANGED <<items, store, now, budget, kq, req, cacheLocals>>

\* the row a mutation is tried on: the newest
TargetIds == IF store = Empty THEN {} ELSE {store[Len(store)].id}

CreateProduct(categoryID, name) ==
    /\ budget.muts < MaxMutations
    /\ store' = Append(store, Product(budget.nextId, categoryID, name))
    /\ budget' = [budget EXCEPT !.muts = @ + 1, !.nextId = @ + 1]
    /\ UNCHANGED <<items, now, cpc, call, kq, req, cacheLocals>>

UpdateProduct(id, categoryID, name) ==
    /\ budget.muts < MaxMutations
    /\ id \in TargetIds
    /\ store' = [i \in 1..Len(store) |->
                    IF store[i].id = id
                    THEN [store[i] EXCEPT !.cat = categoryID, !.name = name, !.rev = @ + 1]
                    ELSE store[i]]
    /\ budget' = [budget EXCEPT !.muts = @ + 1]
    /\ UNCHANGED <<items, now, cpc, call, kq, req, cacheLocals>>

DeleteProduct(id) ==
    LET Keep(p) == p.id # id
    IN  /\ budget.muts < MaxMutations
        /\ id \in TargetIds
        /\ store' = SelectSeq(store, Keep)
        /\ budget' = [budget EXCEPT !.muts = @ + 1]
        /\ UNCHANGED <<items, now, cpc, call, kq, req, cacheLocals>>

\* minutes pass: up to the deadline of an entry cached now, or just beyond it
DalTick(d) ==
    /\ now + d <= DalMaxTime
    /\ now' = now + d
    /\ UNCHANGED <<items, store, cpc, call, budget, kq, req, cacheLocals>>

NextDAL ==
    \/ \E c \in Callers, page \in DalPages, pageSize \in DalSizes,
          categoryID \in DalCats, search \in DalSearches :
            GetProductsPaginated(c, page, pageSize, categoryID, search)
    \/ \E c \in Callers : GetAllProducts(c)
    \/ \E c \in Callers : PagCount(c)
    \/ \E c \in Callers : PagCountFail(c)
    \/ \E c \in Callers : PagQuery(c)
    \/ \E c \in Callers, kind \in QueryErrors : PagQueryFail(c, kind)
    \/ \E c \in Callers : PagFinish(c)
    \/ \E c \in Callers : PagReturn(c)
    \/ CreateProduct(CatA, CatA)
    \/ \E id \in TargetIds : UpdateProduct(id, CatB, CatB)
    \/ \E id \in TargetIds : DeleteProduct(id)
    \/ \E d \in {CacheTTL, CacheTTL + 1} : DalTick(d)

SpecDAL == InitDAL /\ [][NextDAL]_vars

\* ------------------------------------------------------------------
\* generateCacheKey applied to two queries.

InitKey ==
    /\ CacheInit /\ DalIdle /\ AuthIdle
    /\ kq \in {[NoKq EXCEPT !.a = a, !.b = b] : a \in KeyQueries, b \in KeyQueries}

KeyGen ==
    /\ ~kq.done
    /\ kq' = [kq EXCEPT
                !.pa = PreHash(kq.a.page, kq.a.pageSize, kq.a.cat, kq.a.search),
                !.pb = PreHash(kq.b.page, kq.b.pageSize, kq.b.cat, kq.b.search),
                !.ka = generateCacheKey(kq.a.page, kq.a.pageSize, kq.a.cat, kq.a.search),
                !.kb = generateCacheKey(kq.b.page, kq.b.pageSize, kq.b.cat, kq.b.search),
                !.done = TRUE]
    /\ UNCHANGED <<items, now, store, cpc, call, budget, req, cacheLocals>>

NextKey == KeyGen

SpecKey == InitKey /\ [][NextKey]_vars

\* ================================================================ claims
\* The deadline the last Set on k computed: its clock reading plus its ttl.
Deadline(k) == lastSet[k].at + lastSet[k].ttl

\* p's Get has produced its return value and still holds the read lock, so
\* no Set, Delete, Clear or sweep has run since its lookup.
Returned(p) == pc[p] = "get_runlock"

\* p is inside a write of the table: the delete of Get, or the body of an
\* operation that has obtained the write lock.
WriteInProgress(p) ==
    \/ p \in Threads /\ pc[p] = "get_deleting"
    \/ /\ Locked(p)
       /\ pc[p] \in {"set_store", "delete_remove", "clear_reset", "sweep_scan"}

\* C1: a Get never reports found for an entry whose Expiration had passed
\* when the call read the clock, whether or not the entry was still in the map.
C1_NeverReturnsExpired ==
    \A p \in Threads :
        Returned(p) /\ ret[p].found =>
            /\ lastSet[arg[p].key] # NoSet
            /\ ~(tnow[p] > Deadline(arg[p].key))

\* a Get met an expired entry that was still physically in the map and missed
C1_Witness ==
    \E p \in Threads :
        /\ Returned(p) /\ exists[p] /\ ~ret[p].found
        /\ lastSet[arg[p].key] # NoSet
        /\ tnow[p] > Deadline(arg[p].key)

\* C2 (as claimed): no two operations that write the table are in progress
\* at the same time.
C2_WritesExclusive ==
    \A p \in Procs : \A q \in Procs \ {p} :
        ~(WriteInProgress(p) /\ WriteInProgress(q))

\* C3 (as claimed): while a write of the table is in progress no other
\* goroutine holds shared (read) access.
C3_WriteExcludesReaders ==
    \A p \in Procs : WriteInProgress(p) => readers \subseteq {p}

\* C4 (as claimed): concurrent Sets and Gets never crash the process, and a
\* Get that reports found returns the value stored under its own key.
C4_NoCrashNoCorruption ==
    /\ ~crashed
    /\ \A p \in Threads :
          Returned(p) /\ ret[p].found =>
              /\ lastSet[arg[p].key] # NoSet
              /\ ret[p].value = lastSet[arg[p].key].value

\* C5 (as claimed): Get misses exactly when the key is absent or
\* now >= expiresAt; a Get at the instant now = expiresAt is a miss.
C5_MissAtDeadline ==
    \A p \in Threads :
        Returned(p) =>
            LET k == arg[p].key
                live == lastSet[k] # NoSet /\ ~(tnow[p] >= Deadline(k))
            IN  ret[p] = IF live THEN [value |-> lastSet[k].value, found |-> TRUE]
                         ELSE [value |-> Nil, found |-> FALSE]

\* C5 (amended): Get misses exactly when the key is absent or
\* now > expiresAt, and returns the stored value otherwise; a Get at the
\* instant now = expiresAt is a hit.
C5_MissAfterDeadline ==
    \A p \in Threads :
        Returned(p) =>
            LET k == arg[p].key
                live == lastSet[k] # NoSet /\ ~(tnow[p] > Deadline(k))
            IN  ret[p] = IF live THEN [value |-> lastSet[k].value, found |-> TRUE]
                         ELSE [value |-> Nil, found |-> FALSE]

\* a Get made exactly at the deadline returned the value
C5_Witness ==
    \E p \in Threads :
        /\ Returned(p) /\ ret[p].found
        /\ tnow[p] = Deadline(arg[p].key)

\* C6: a Get of k made before the ttl > 0 of the last Set(k, v, ttl) has
\* elapsed, with no Delete or Clear in between, returns (v, true).
C6_RoundTrip ==
    \A p \in Threads :
        LET k == arg[p].key IN
        /\ Returned(p) /\ lastSet[k] # NoSet
        /\ lastSet[k].ttl > 0 /\ tnow[p] < Deadline(k)
        => ret[p] = [value |-> lastSet[k].value, found |-> TRUE]

\* a Get at the very clock instant of a Set with positive ttl returned its value
C6_Witness ==
    \E p \in Threads :
        LET k == arg[p].key IN
        /\ Returned(p) /\ lastSet[k] # NoSet
        /\ lastSet[k].ttl > 0 /\ tnow[p] = lastSet[k].at
        /\ ret[p] = [value |-> lastSet[k].value, found |-> TRUE]

\* C7: once the clock is past the deadline of the last Set on k, Get(k)
\* reports not found, also when the entry is still in the map because
\* no sweep has removed it.
C7_ExpiryWithoutSweep ==
    \A p \in Threads :
        LET k == arg[p].key IN
        Returned(p) /\ lastSet[k] # NoSet /\ tnow[p] > Deadline(k)
        => ~ret[p].found /\ ret[p].value = Nil

\* a Get found an entry with a positive ttl still in the map after its
\* deadline, with the sweep not running, and reported a miss
C7_Witness ==
    \E p \in Threads :
        LET k == arg[p].key IN
        /\ Returned(p) /\ exists[p] /\ ~ret[p].found
        /\ lastSet[k].ttl > 0 /\ tnow[p] > Deadline(k)
        /\ pc[Sweeper] = "idle"

\* C8: a Set on a key replaces value and deadline: after its store the map
\* holds the new value with the deadline now + ttl of this call, whatever
\* entry was there before, and a Get that reports found returns that value.
C8_Overwrite ==
    /\ \A p \in Threads :
          pc[p] = "set_unlock" =>
              LET k == arg[p].key IN
              /\ k \in DOMAIN items
              /\ lastSet[k] = [value |-> arg[p].value, at |-> lastSet[k].at,
                               ttl |-> arg[p].ttl]
              /\ items[k] = CacheItem(arg[p].value, lastSet[k].at + arg[p].ttl)
    /\ \A k \in DOMAIN items :
          items[k] = CacheItem(lastSet[k].value, Deadline(k))
    /\ \A p \in Threads :
          Returned(p) /\ ret[p].found => ret[p].value = lastSet[arg[p].key].value

\* a Set has replaced an entry that had another value and a later deadline
C8_Witness ==
    \E p \in Threads :
        /\ pc[p] = "set_unlock"
        /\ old[p] # NoItem
        /\ old[p].value # arg[p].value
        /\ old[p].exp > items[arg[p].key].exp
        /\ old[p].exp >= now

\* C9: after a sweep run every entry whose Expiration had passed when the
\* sweep read the clock is gone from the map, and every entry whose
\* Expiration was still ahead is in the map unchanged.
C9_SweepCorrect ==
    pc[Sweeper] = "sweep_unlock" =>
        \A k \in DOMAIN before :
            /\ snow > before[k].exp => k \notin DOMAIN items
            /\ before[k].exp > snow => k \in DOMAIN items /\ items[k] = before[k]

\* a sweep over a map with a past and a future deadline removed the one
\* and kept the other
C9_Witness ==
    /\ pc[Sweeper] = "sweep_unlock"
    /\ \E k1 \in DOMAIN before : \E k2 \in DOMAIN before :
          /\ snow > before[k1].exp /\ k1 \notin DOMAIN items
          /\ before[k2].exp > snow /\ k2 \in DOMAIN items

\* the step of the sweep, and of p's Get, that removes entries
SweepRemoval == pc[Sweeper] = "sweep_scan" /\ pc'[Sweeper] = "sweep_unlock"
EagerRemoval(p) == pc[p] = "get_deleting" /\ pc'[p] = "get_runlock"

\* C10: no removal by the sweep or by a Get takes out an entry whose
\* Expiration is still in the future at the moment of the removal.
C10_NoLiveEntryReclaimed ==
    [][ (SweepRemoval \/ \E p \in Threads : EagerRemoval(p)) =>
            \A k \in DOMAIN items \ DOMAIN items' : ~(items[k].exp > now) ]_vars

\* a Get has removed the expired entry of its key while a live entry of
\* another key stays in the map
C10_Witness ==
    \E p \in Threads :
        /\ Returned(p) /\ exists[p] /\ ~ret[p].found
        /\ arg[p].key \notin DOMAIN items
        /\ \E k \in DOMAIN items : items[k].exp > now

\* the step of p's Delete that removes its key
DeleteStep(p) == pc[p] = "delete_remove" /\ pc'[p] = "delete_unlock"

\* C11: Delete(k) of an absent key leaves the whole table unchanged and is
\* no error; Delete(k) of a present key removes exactly that entry; the
\* table after a Delete no longer holds k, so a second Delete(k) changes
\* nothing more.
C11_DeleteIdempotent ==
    [][ \A p \in Threads :
          DeleteStep(p) =>
              LET k == arg'[p].key IN
              /\ crashed' = crashed
              /\ k \notin DOMAIN items => items' = items
              /\ k \in DOMAIN items =>
                    /\ DOMAIN items' = DOMAIN items \ {k}
                    /\ \A x \in DOMAIN items' : items'[x] = items[x]
              /\ k \notin DOMAIN items' ]_vars

\* a Delete of a key that was not in the table has run and the entry of
\* another key is still there
C11_Witness ==
    \E p \in Threads :
        /\ pc[p] = "delete_unlock"
        /\ old[p] = NoItem
        /\ arg[p].key \notin DOMAIN items
        /\ items # EmptyMap

\* C12: after Clear the table is empty, and a Get of a key that has not
\* been Set again since the Clear reports not found.
C12_ClearEmpties ==
    /\ \A p \in Threads : pc[p] = "clear_unlock" => items = EmptyMap
    /\ \A p \in Threads :
          Returned(p) /\ lastSet[arg[p].key] = NoSet =>
              ret[p] = [value |-> Nil, found |-> FALSE]

\* a Clear of a table that held entries has run
C12_Witness ==
    \E p \in Threads :
        /\ pc[p] = "clear_unlock"
        /\ before # EmptyMap
        /\ items = EmptyMap

\* C13 (as claimed): after a Set with ttl <= 0 every Get of the key, also
\* one at the clock instant of the Set, reports not found.
C13_NonPositiveTTLAlwaysMiss ==
    \A p \in Threads :
        LET k == arg[p].key IN
        Returned(p) /\ lastSet[k] # NoSet /\ lastSet[k].ttl <= 0
        => ~ret[p].found

\* C13 (amended): a Set with ttl <= 0 stores its entry; a Get of the key
\* reports not found when the ttl is negative or the clock has moved on
\* since the Set, and returns the value when the ttl is zero and the Get
\* reads the same clock instant as the Set.
C13_NonPositiveTTL ==
    /\ \A p \in Threads :
          pc[p] = "set_unlock" /\ arg[p].ttl <= 0 =>
              /\ arg[p].key \in DOMAIN items
              /\ items[arg[p].key].exp <= lastSet[arg[p].key].at
    /\ \A p \in Threads :
          LET k == arg[p].key IN
          Returned(p) /\ lastSet[k] # NoSet /\ lastSet[k].ttl <= 0 =>
              IF lastSet[k].ttl < 0 \/ tnow[p] > lastSet[k].at
              THEN ret[p] = [value |-> Nil, found |-> FALSE]
              ELSE ret[p] = [value |-> lastSet[k].value, found |-> TRUE]

\* a Get at the clock instant of a Set with negative ttl found the stored
\* entry and reported a miss
C13_Witness ==
    \E p \in Threads :
        LET k == arg[p].key IN
        /\ Returned(p) /\ exists[p] /\ ~ret[p].found
        /\ lastSet[k] # NoSet /\ lastSet[k].ttl < 0
        /\ tnow[p] = lastSet[k].at

\* C15: a Get of k made while the positive ttl of the last Set(k, v, ttl)
\* has not elapsed returns v, for every calling thread and so for the one
\* that called Set; and a Get that reports found, also one racing with a
\* Set on its key, returns the value of one whole entry, tested against
\* that entry's own deadline.
C15_SetThenGet ==
    \A p \in Threads :
        Returned(p) =>
            LET k == arg[p].key IN
            /\ ( /\ lastSet[k] # NoSet /\ lastSet[k].ttl > 0
                 /\ tnow[p] - lastSet[k].at < lastSet[k].ttl )
               => ret[p].found /\ ret[p].value = lastSet[k].value
            /\ ret[p].found =>
                  /\ ret[p].value # Nil
                  /\ ret[p].value = lastSet[k].value
                  /\ ~(tnow[p] > Deadline(k))

\* a Get has returned the entry of its key while a Set is queued behind it
\* for the write lock
C15_Witness ==
    \E p \in Threads : \E q \in Threads \ {p} :
        /\ Returned(p) /\ ret[p].found
        /\ writer = q /\ pc[q] = "set_store"

\* the sweep holds the write lock for its scan, or has scanned and not
\* yet released it
SweepRunning ==
    \/ pc[Sweeper] = "sweep_scan" /\ Locked(Sweeper)
    \/ pc[Sweeper] = "sweep_unlock"

\* C16: a sweep run never meets the fatal runtime error: while it runs no
\* other goroutine is inside the map and the process has not crashed; a
\* sweep of the empty table leaves it empty.
C16_SweepNeverCrashes ==
    /\ SweepRunning => ~crashed /\ readers = {} /\ MapWriters = {}
    /\ pc[Sweeper] = "sweep_unlock" /\ before = EmptyMap => items = EmptyMap

\* a sweep of the empty table has run while a foreground Get waits for it
C16_Witness ==
    /\ pc[Sweeper] = "sweep_unlock"
    /\ before = EmptyMap /\ items = EmptyMap
    /\ \E p \in Threads : pc[p] = "get_rlock"

MaxPathLen == 5
StatusSeeOther == 303

\* r.URL.Path as a sequence of pieces of text
PathTokens == {"/", "login", "static", "proxy", "image", "products"}
Paths == UNION {[1..n -> PathTokens] : n \in 0..MaxPathLen}
LoginPath == <<"/", "login">>
StaticPrefix == <<"/", "static", "/">>
ImageProxyPath == <<"/", "proxy", "/", "image">>

\* what the session holds under "authenticated": nothing, a bool, or a
\* value of another type
SessionValues == {"absent", "bool:true", "bool:false", "string:true"}

\* scs.SessionManager.GetBool: the zero value unless a bool is stored
GetBool(v) == v = "bool:true"

\* a prefix test that also accepts the prefix anywhere inside the string
HasPrefixAnywhere(s, prefix) ==
    \E i \in 0..(Len(s) - Len(prefix)) : SubSeq(s, i + 1, i + Len(prefix)) = prefix

\* strings.HasPrefix
HasPrefix(s, prefix) == Len(s) >= Len(prefix) /\ SubSeq(s, 1, Len(prefix)) = prefix

\* line 14: the paths excluded from the check
Excluded(path) ==
    path = LoginPath \/ HasPrefix(path, StaticPrefix) \/ path = ImageProxyPath

\* a request arrives at the middleware
InitAuth ==
    /\ CacheInit /\ DalIdle /\ KeyIdle
    /\ req \in {[NoReq EXCEPT !.path = p, !.session = v, !.phase = "received"] :
                    p \in Paths, v \in SessionValues}

AuthFrame == UNCHANGED <<items, now, store, cpc, call, budget, kq, cacheLocals>>

\* lines 14-17: an excluded path goes to the next handler unchecked
AuthExcluded ==
    /\ req.phase = "received" /\ Excluded(req.path)
    /\ req' = [req EXCEPT !.nextCalls = @ + 1, !.phase = "served"]
    /\ AuthFrame

\* lines 21-24: no authenticated session, redirect to /login
AuthRedirect ==
    /\ req.phase = "received" /\ ~Excluded(req.path) /\ ~GetBool(req.session)
    /\ req' = [req EXCEPT !.status = StatusSeeOther, !.location = LoginPath,
                          !.phase = "served"]
    /\ AuthFrame

\* line 26: an authenticated request goes to the next handler
AuthPass ==
    /\ req.phase = "received" /\ ~Excluded(req.path) /\ GetBool(req.session)
    /\ req' = [req EXCEPT !.nextCalls = @ + 1, !.phase = "served"]
    /\ AuthFrame

NextAuth == AuthExcluded \/ AuthRedirect \/ AuthPass

SpecAuth == InitAuth /\ [][NextAuth]_vars

\* ------------------------------------------------------------------
\* Claims about the data-access layer.

\* the queries the callers can make, after normalisation
NormQueries ==
    [page : {NormPage(p) : p \in DalPages}, pageSize : {NormSize(s) : s \in DalSizes},
     cat : DalCats, search : DalSearches]

\* what the store st returns for query q when nothing interleaves
FreshResult(st, q) ==
    PaginatedResult(PageQuery(st, q.page, q.pageSize, q.cat, q.search),
                    CountQuery(st, q.cat, q.search), q.page, q.pageSize)

KeyOf(q) == generateCacheKey(q.page, q.pageSize, q.cat, q.search)

AllIdle == \A c \in Callers : cpc[c] = "idle"

\* C14 (as claimed): no product mutation leaves a cached page that
\* contradicts the store: after a mutation made while no listing is in
\* flight, every cached page that Get would still serve equals what the
\* store now returns for its query.
C14_NoMutationLeavesStalePage ==
    [][(store' # store /\ AllIdle) =>
          \A q \in NormQueries :
              (KeyOf(q) \in DOMAIN items' /\ now' <= items'[KeyOf(q)].exp)
                  => items'[KeyOf(q)].value = FreshResult(store', q)]_vars

\* C17: GetProductsPaginated consults the cache before the store.  On a
\* hit it returns the cached result and runs no store query; on a miss it
\* has run no query yet, then runs the count and the page query, and on
\* finishing stores exactly the result it returns under its key with a
\* deadline five minutes ahead.
C17_CacheBeforeStore ==
    [][\A c \in Callers :
          /\ (cpc[c] = "idle" /\ cpc'[c] # "idle") =>
                LET k == call'[c].key
                IN  /\ k = generateCacheKey(call'[c].page, call'[c].pageSize,
                                            call'[c].cat, call'[c].search)
                    /\ call'[c].queries = 0
                    /\ IF k \in DOMAIN items /\ now <= items[k].exp
                       THEN /\ cpc'[c] = "done" /\ call'[c].hit
                            /\ call'[c].result = items[k].value
                            /\ call'[c].err = ""
                       ELSE cpc'[c] = "count" /\ ~call'[c].hit
          /\ call'[c].queries > call[c].queries => ~call[c].hit
          /\ (cpc[c] = "finish" /\ cpc'[c] = "done") =>
                /\ call[c].queries = 2 /\ call'[c].err = ""
                /\ call[c].key \in DOMAIN items'
                /\ items'[call[c].key] = CacheItem(call'[c].result, now + CacheTTL)
          /\ (cpc[c] = "done" /\ cpc'[c] = "idle" /\ call[c].hit) =>
                call[c].queries = 0]_vars

\* a second listing was served from the entry the first one cached
C17_Witness ==
    \E c \in Callers :
        /\ cpc[c] = "done" /\ call[c].hit /\ call[c].queries = 0
        /\ budget.calls = 2
        /\ call[c].result.totalCount > 0

\* C18 (as claimed): equal query tuples give equal keys, and tuples that
\* differ in a component are serialised to different pre-hash strings.
C18_KeyInjective ==
    kq.done =>
        /\ kq.a = kq.b => kq.ka = kq.kb
        /\ kq.a # kq.b => kq.pa # kq.pb

\* C19 (as claimed): with no mutation under way, the slice GetAllProducts
\* returns holds every product of the store.
C19_AllProductsReturned ==
    \A c \in Callers :
        (cpc[c] = "done" /\ call[c].all /\ call[c].err = "" /\ budget.muts = 0)
            => /\ Len(call[c].result.data) = Len(store)
               /\ \A i \in 1..Len(store) :
                     \E j \in 1..Len(call[c].result.data) :
                         call[c].result.data[j] = store[i]

\* ------------------------------------------------------------------
\* Further claims about the cache.

\* C21: Set has no error outcome.  Once it holds the lock its store can be
\* taken for every key, value and ttl (negative and zero included), the
\* only position it leads to is the unlock, and the table then maps the
\* key to the given value with the deadline clock reading + ttl.
C21_SetAlwaysSucceeds ==
    /\ [](\A p \in Threads :
            (~crashed /\ pc[p] = "set_store" /\ writer = p /\ readers = {}) =>
                \A k \in Keys, v \in Values, t \in TTLs : ENABLED SetStore(p, k, v, t))
    /\ [][\A p \in Threads :
            (pc[p] = "set_store" /\ pc'[p] # "set_store") =>
                /\ pc'[p] = "set_unlock"
                /\ arg'[p].key \in DOMAIN items'
                /\ items'[arg'[p].key] =
                       [value |-> arg'[p].value, exp |-> now + arg'[p].ttl]
                /\ \A k \in DOMAIN items' \ {arg'[p].key} :
                       k \in DOMAIN items /\ items'[k] = items[k]]_vars

\* a Set with a negative ttl has stored its entry, which is already expired
C21_Witness ==
    \E p \in Threads :
        /\ pc[p] = "set_unlock" /\ arg[p].ttl < 0
        /\ arg[p].key \in DOMAIN items
        /\ items[arg[p].key].value = arg[p].value
        /\ items[arg[p].key].exp < now

\* C22 (as claimed): with the sweep task kept running, an entry that has
\* expired is eventually out of the table or replaced by a later Set,
\* whether or not a Get is issued for its key.
C22_ExpiredEventuallyRemoved ==
    \A k \in LiveKeys :
        (k \in DOMAIN items /\ now > items[k].exp)
            ~> (k \notin DOMAIN items \/ ~(now > items[k].exp))

\* C23 (as claimed): every started Set, Get, Delete, Clear and sweep run
\* obtains the lock, completes and releases it.
C23_EveryCallCompletes ==
    \A p \in Procs : (pc[p] # "idle") ~> (pc[p] = "idle")

\* the entries of all keys but k are the same before and after the step
OthersSame(k) ==
    \A x \in Keys \ {k} :
        /\ x \in DOMAIN items <=> x \in DOMAIN items'
        /\ x \in DOMAIN items => items'[x] = items[x]

\* C24: the store of Set(k, ...) and the removal of Delete(k) leave the
\* entry of every other key as it was; so does the delete a Get(k) makes
\* for an expired entry; every other step of a Set, Get or Delete, and so
\* a Get that is a hit or a miss on an absent key, leaves the whole table
\* as it was.
C24_Frame ==
    [][\A p \in Threads :
          /\ (pc[p] = "set_store" /\ pc'[p] = "set_unlock") => OthersSame(arg'[p].key)
          /\ (pc[p] = "delete_remove" /\ pc'[p] = "delete_unlock") =>
                OthersSame(arg'[p].key)
          /\ (pc[p] = "get_deleting" /\ pc'[p] = "get_runlock") => OthersSame(arg[p].key)
          /\ (/\ pc'[p] # pc[p]
              /\ pc[p] \in {"idle", "set_lock", "set_unlock", "get_rlock", "get_lookup",
                            "get_delete", "get_runlock", "delete_lock", "delete_unlock"})
                => items' = items]_vars

\* a Delete has removed the entry of its key while another key kept its entry
C24_Witness ==
    \E p \in Threads :
        /\ pc[p] = "delete_unlock" /\ old[p] # NoItem
        /\ \E x \in DOMAIN items : x # arg[p].key

\* C25: no step of a Get changes the deadline of an entry, and once a Get
\* of k has returned not found because the entry had expired, a Get of k
\* that looks the key up later reports not found, until a Set on k.
C25_ExpiryPermanent ==
    [][\A p \in Threads :
          /\ (pc'[p] # pc[p] /\ pc[p] \in {"get_rlock", "get_lookup", "get_delete",
                                           "get_deleting", "get_runlock"}) =>
                \A k \in DOMAIN items' : k \in DOMAIN items /\ items'[k] = items[k]
          /\ (pc[p] = "get_lookup" /\ pc'[p] = "get_runlock" /\ arg'[p].key \in dead) =>
                ret'[p] = [value |-> Nil, found |-> FALSE]]_vars

\* a Get looked up, at a later clock reading, a key that an earlier Get had
\* reported expired and that a sweep had not been needed to remove
C25_Witness ==
    \E p \in Threads :
        /\ pc[p] = "get_runlock" /\ arg[p].key \in dead /\ ~exists[p]
        /\ lastSet[arg[p].key] # NoSet
        /\ tnow[p] > Deadline(arg[p].key) + 1

\* C26: a listing whose count query, page query, row scan or row iteration
\* fails returns the error and no result and leaves the table as it was;
\* an entry is written only by a listing that finishes without error, and
\* holds the result that listing returns.
C26_FailureNotCached ==
    [][/\ \A c \in Callers :
            (cpc[c] \in {"count", "page"} /\ cpc'[c] = "done") =>
                /\ call'[c].err \in {"count"} \cup QueryErrors
                /\ call'[c].result = NoResult
                /\ items' = items
       /\ \A k \in DOMAIN items' :
            (k \notin DOMAIN items \/ items'[k] # items[k]) =>
                \E c \in Callers :
                    /\ cpc[c] = "finish" /\ cpc'[c] = "done" /\ call[c].key = k
                    /\ call'[c].err = "" /\ call[c].queries = 2
                    /\ items'[k].value = call'[c].result]_vars

\* a row scan failed after rows had been read; nothing is cached for the key
C26_Witness ==
    \E c \in Callers :
        /\ cpc[c] = "done" /\ call[c].err = "scan"
        /\ call[c].products # Empty
        /\ call[c].key \notin DOMAIN items

\* the values lines 79-87 turn the arguments into
NormalPage(c) == IF call[c].inPage < 1 THEN 1 ELSE call[c].inPage
NormalSize(c) ==
    IF call[c].inSize < 1 THEN 20 ELSE IF call[c].inSize > 100 THEN 100 ELSE call[c].inSize

\* C27: page < 1 is treated as 1, pageSize < 1 as 20 and pageSize > 100 as
\* 100 before the key is computed: calls that normalise to the same query
\* use the same key, and the Page and PageSize of a result returned or
\* cached are the normalised values, with Page >= 1 and 1 <= PageSize <= 100.
C27_Normalised ==
    /\ \A c \in Callers :
          cpc[c] # "idle" =>
              /\ call[c].page = NormalPage(c) /\ call[c].pageSize = NormalSize(c)
              /\ call[c].key = [prefix |-> "products:",
                                sum |-> MD5(PreHash(NormalPage(c), NormalSize(c),
                                                    call[c].cat, call[c].search))]
              /\ (cpc[c] = "done" /\ call[c].err = "") =>
                    /\ call[c].result.page = NormalPage(c)
                    /\ call[c].result.pageSize = NormalSize(c)
    /\ \A c, d \in Callers :
          ( /\ cpc[c] # "idle" /\ cpc[d] # "idle"
            /\ NormalPage(c) = NormalPage(d) /\ NormalSize(c) = NormalSize(d)
            /\ call[c].cat = call[d].cat /\ call[c].search = call[d].search )
              => call[c].key = call[d].key
    /\ \A k \in DOMAIN items :
          /\ items[k].value.page >= 1
          /\ items[k].value.pageSize >= 1 /\ items[k].value.pageSize <= 100

\* two callers passed different page and pageSize arguments, got the same
\* key, and the second was served the page the first had cached
C27_Witness ==
    \E c, d \in Callers :
        /\ cpc[c] = "done" /\ cpc[d] = "done" /\ call[c].key = call[d].key
        /\ call[c].inPage # call[d].inPage /\ call[c].inSize # call[d].inSize
        /\ call[d].hit /\ call[d].result = call[c].result
        /\ call[d].result.pageSize = 100

\* C28: callers that miss on the same key are not held back by one another:
\* each can run its count query, its page query and its Set.  A Set leaves
\* under the key exactly the result of the caller that made it, whatever
\* another caller had stored there, and no entry is served for more than
\* five minutes after it was stored.
C28_LastSetWins ==
    /\ [](\A c \in Callers :
            /\ cpc[c] = "count" => ENABLED PagCount(c)
            /\ cpc[c] = "page" => ENABLED PagQuery(c)
            /\ cpc[c] = "finish" => ENABLED PagFinish(c))
    /\ [](\A k \in DOMAIN items : items[k].exp <= now + CacheTTL)
    /\ [][\A c \in Callers :
            (cpc[c] = "finish" /\ cpc'[c] = "done") =>
                /\ DOMAIN items' = DOMAIN items \cup {call[c].key}
                /\ items'[call[c].key].value = call'[c].result
                /\ items'[call[c].key].exp = now + CacheTTL
                /\ \A k \in DOMAIN items \ {call[c].key} : items'[k] = items[k]]_vars

\* two callers missed on the same key; d queried the store after a mutation
\* and stored its result, then c stored the result it had computed before
\* the mutation; five minutes later the table still serves c's result,
\* which is not what the store returns
C28_Witness ==
    \E c, d \in Callers :
        /\ c # d /\ cpc[c] = "done" /\ cpc[d] = "done"
        /\ ~call[c].hit /\ ~call[d].hit /\ call[c].err = "" /\ call[d].err = ""
        /\ call[c].key = call[d].key /\ call[c].result # call[d].result
        /\ budget.muts > 0
        /\ call[d].result = FreshResult(store, call[d])
        /\ call[c].key \in DOMAIN items
        /\ items[call[c].key].value = call[c].result
        /\ now >= CacheTTL /\ now <= items[call[c].key].exp

\* the least number of pages of the given size that hold count rows
CeilPages(count, size) ==
    CHOOSE n \in 0..count : n * size >= count /\ (n = 0 \/ (n - 1) * size < count)

\* TotalPages, HasNext and HasPrev of r agree with its count, page and size
MetadataConsistent(r) ==
    /\ r.totalPages = CeilPages(r.totalCount, r.pageSize)
    /\ r.totalCount = 0 => r.totalPages = 0
    /\ r.hasNext <=> r.page < r.totalPages
    /\ r.hasPrev <=> r.page > 1

\* C29: in every result GetProductsPaginated returns or caches, TotalPages
\* is the ceiling of TotalCount / PageSize (0 for no rows), HasNext holds
\* exactly when Page < TotalPages and HasPrev exactly when Page > 1.
C29_MetadataConsistent ==
    /\ \A c \in Callers :
          (cpc[c] = "done" /\ call[c].err = "") => MetadataConsistent(call[c].result)
    /\ \A k \in DOMAIN items : MetadataConsistent(items[k].value)

\* a middle page of a listing whose last page is not full
C29_Witness ==
    \E c \in Callers :
        /\ cpc[c] = "done" /\ call[c].err = "" /\ ~call[c].hit
        /\ call[c].result.totalCount % call[c].result.pageSize # 0
        /\ call[c].result.hasNext /\ call[c].result.hasPrev
        /\ call[c].result.totalPages > 2

\* ------------------------------------------------------------------
\* Claim about the Auth middleware.

\* C30: a request reaches the next handler exactly when its path is /login,
\* starts with /static/, is /proxy/image, or the session holds the bool true
\* under "authenticated"; every other request gets a 303 redirect to /login
\* and the next handler is not called.
C30_AuthGate ==
    req.phase = "served" =>
        LET p == req.path
            open == \/ p = <<"/", "login">>
                    \/ (Len(p) >= 3 /\ SubSeq(p, 1, 3) = <<"/", "static", "/">>)
                    \/ p = <<"/", "proxy", "/", "image">>
                    \/ req.session = "bool:true"
        IN  IF open
            THEN req.nextCalls = 1 /\ req.status = 0 /\ req.location = Empty
            ELSE req.nextCalls = 0 /\ req.status = 303
                 /\ req.location = <<"/", "login">>

\* a request without a session for a path that contains /static/ but does
\* not start with it was redirected
C30_Witness ==
    /\ req.phase = "served" /\ req.session = "absent"
    /\ req.path = <<"/", "products", "/", "static", "/">>
    /\ req.nextCalls = 0 /\ req.status = 303

\* the shape of the cache's state under Spec
TypeOK ==
    /\ DOMAIN items \subseteq Keys
    /\ dead \subseteq Keys
    /\ writer \in Procs \cup {NoProc}
    /\ readers \subseteq Threads
    /\ now \in Times
    /\ crashed \in BOOLEAN
====
